---- MODULE Spec2Model ----
(***************************************************************************)
(* GpMotionFit (src/jaz/gp_motion_fit.cpp): the Gaussian-process motion    *)
(* objective.  The object is built once by the constructor; afterwards the *)
(* driver calls paramsToPos, posToParams, f and grad on it.                *)
(*                                                                         *)
(* Numbers.  All inputs are small integers.  Every double the code         *)
(* computes from them is then an integer or an integer divided by          *)
(* eigenVals[d] or by sig_acc_px^2; such a quotient is kept as the pair    *)
(* <<numerator, denominator>> (a denominator of 0 is the non-finite result *)
(* of a division by zero), so no rounding is lost.                         *)
(* Vectors and matrices are functions over 0..n-1, with the indices of the *)
(* source.                                                                 *)
(***************************************************************************)
EXTENDS Integers, Sequences, FiniteSets

\* ------------------------------------------------------------------ bounds
MaxPc == 2          \* most particles of an input correlation set
MaxFc == 3          \* most frames of an input correlation set
MaxDims == 2        \* largest maxDims argument
MaxSeed == 2        \* number of parameter-vector families
MaxThreads == 2     \* most worker threads of the parallel loop of f

VARIABLES
    state,          \* "new": not constructed; "ready": constructed, no call
                    \* outstanding; "running": inside the parallel loop of f;
                    \* "returned": a member function has returned to the
                    \* driver; "dead": the process was killed by an invalid
                    \* access
    pc, fc, dc,     \* fields of GpMotionFit
    sig_vel_px, sig_div_px, sig_acc_px,
    expKer, threads,
    correlation, positions, perFrameOffsets,
    basis, eigenVals,
    op,             \* the member function called last
    x,              \* its parameter vector argument (f, grad, paramsToPos)
    pos,            \* the position grid: output of paramsToPos, input of posToParams
    xOut,           \* the vector written by posToParams
    e_ret,          \* the value returned by f
    gradDest,       \* the vector written by grad
    oob,            \* the call indexed a vector outside its bounds
    accTaken,       \* the call entered the branch under `if (sig_acc_px > 0.0)`
    \* the parallel loop of f (lines 72-88), one step per worker step
    e_tot,          \* the shared accumulator
    todo,           \* iterations p the runtime has not handed out yet
    wpc,            \* per worker: "idle", "body", "atomic", "store", "done"
    wp,             \* per worker: its current iteration p
    we,             \* per worker: its local e
    wr,             \* per worker: the value of e_tot it has loaded
    added           \* per particle: how often its e was added to e_tot

objVars == <<pc, fc, dc, sig_vel_px, sig_div_px, sig_acc_px, expKer, threads,
             correlation, positions, perFrameOffsets, basis, eigenVals>>
callVars == <<op, x, pos, xOut, e_ret, gradDest, oob, accTaken>>
parVars == <<e_tot, todo, wpc, wp, we, wr, added>>
vars == <<state, objVars, callVars, parVars>>

\* ------------------------------------------------------------ arithmetic
Size(v) == Cardinality(DOMAIN v)
Empty == [i \in {} |-> 0]

RECURSIVE SumTo(_, _)
\* sum of t[0] .. t[n-1]
SumTo(t, n) == IF n <= 0 THEN 0 ELSE SumTo(t, n - 1) + t[n - 1]

\* a quotient n/d of doubles, kept exact
Quot(n, d) == <<n, d>>
RInt(n) == <<n, 1>>
RAdd(a, b) == IF a[2] = b[2] THEN <<a[1] + b[1], a[2]>>
              ELSE <<a[1] * b[2] + b[1] * a[2], a[2] * b[2]>>
RNeg(a) == <<0 - a[1], a[2]>>
RFinite(a) == a[2] # 0
REq(a, b) == RFinite(a) /\ RFinite(b) /\ a[1] * b[2] = b[1] * a[2]

\* sqrt of a perfect square (the singular values of the inputs drawn below)
Sqrt(n) == CHOOSE r \in 0..n : r * r = n

\* d2Vector
V2(a, b) == <<a, b>>
VAdd(a, b) == <<a[1] + b[1], a[2] + b[2]>>
VSub(a, b) == <<a[1] - b[1], a[2] - b[2]>>
VScale(k, a) == <<k * a[1], k * a[2]>>
norm2(a) == a[1] * a[1] + a[2] * a[2]

\* ---------------------------------------------- the interpolation capability
\* A correlation image is a quadratic function of the position,
\*   k + a*x + b*y + q*(x*x + y*y),
\* whose value and gradient are known exactly.
Img(k, a, b, q) == [k |-> k, a |-> a, b |-> b, q |-> q]
cubicXY(img, px, py) ==
    img.k + img.a * px + img.b * py + img.q * (px * px + py * py)
cubicXYgrad(img, px, py) ==
    V2(img.a + 2 * img.q * px, img.b + 2 * img.q * py)

\* ----------------------------------------------------------- the inputs
\* kind 1: linear images, kind 2: quadratic images; both differ from
\* particle to particle and from frame to frame
ImageOf(kind, p, f) ==
    IF kind = 1 THEN Img(3, p + 1, 2 * f + 1, 0)
    ELSE Img(0, f + 1, p - 1, 1 + ((p + f) % 2))
CorrelationInput(np, nf, kind) ==
    [p \in 0..(np - 1) |-> [f \in 0..(nf - 1) |-> ImageOf(kind, p, f)]]
\* particles far apart: the squared distance of two different particles is
\* at least 10^6 pixels^2
PositionsInput(np) == [p \in 0..(np - 1) |-> V2(1000 * p, 1000 * (np - p))]
OffsetsInput(nf) == [f \in 0..(nf - 1) |-> V2(f, 1 - f)]
\* <<sig_vel_px, sig_div_px, sig_acc_px, expKer>>
HyperParams ==
    { <<2, 1, 0, FALSE>>, <<2, 1, 1, TRUE>>, <<1, 1, 2, FALSE>>,
      <<0 - 1, 1, 1, FALSE>>, <<1, 0 - 1, 0, TRUE>>, <<0, 1, 1, FALSE>> }
\* parameter vectors of a given length, entries in -2..2
XVector(len, seed) ==
    [i \in 0..(len - 1) |-> ((seed * (i + 1) + i * i) % 5) - 2]
\* what a read past the end of a vector may return
JunkVals == {0, 7}

\* ------------------------------------------------------------ loop helpers
\* the iterations <<a, b>> of `for a in [0,na) for b in [0,nb)`, in order
Pairs(na, nb) ==
    IF na <= 0 \/ nb <= 0 THEN << >>
    ELSE [k \in 1..(na * nb) |-> <<(k - 1) \div nb, (k - 1) % nb>>]

\* the iterations <<a, b, c>> of `for a in [0,na) for b in [0,nb) for c in
\* [0,nc)`, in order
Triples(na, nb, nc) ==
    IF na <= 0 \/ nb <= 0 \/ nc <= 0 THEN << >>
    ELSE [k \in 1..(na * nb * nc) |->
            <<(k - 1) \div (nb * nc), ((k - 1) \div nc) % nb, (k - 1) % nc>>]

RECURSIVE SumRange(_, _, _)
\* t[lo] + ... + t[hi]
SumRange(t, lo, hi) ==
    IF lo > hi THEN 0
    ELSE IF lo = hi THEN t[lo]
    ELSE SumRange(t, lo, (lo + hi) \div 2) + SumRange(t, (lo + hi) \div 2 + 1, hi)

\* A loop of `v[index] += amount` statements: iteration its[n] runs the m
\* statements 0..m-1; statement j of iteration it adds Amount(it, j) to
\* v[Index(it, j)].  The statements are numbered 1..m*Len(its) in program
\* order.
StmtIteration(its, m, k) == its[((k - 1) \div m) + 1]
StmtNumber(m, k) == (k - 1) % m

RECURSIVE WrittenTo(_, _, _, _, _)
\* the sum of the amounts that the statements lo..hi add to index i, where
\* statement k adds amt[k] to v[idx[k]]
WrittenTo(idx, amt, i, lo, hi) ==
    IF lo > hi THEN RInt(0)
    ELSE IF lo = hi THEN (IF idx[lo] = i THEN amt[lo] ELSE RInt(0))
    ELSE RAdd(WrittenTo(idx, amt, i, lo, (lo + hi) \div 2),
              WrittenTo(idx, amt, i, (lo + hi) \div 2 + 1, hi))

\* the vector g after the n statements; a statement whose index lies outside
\* g writes outside the vector
ApplyWrites(g, idx, amt, n) ==
    [i \in DOMAIN g |-> RAdd(g[i], WrittenTo(idx, amt, i, 1, n))]

\* x[i]; a read outside the vector returns whatever lies there
XAt(xv, i, junk) == IF i \in DOMAIN xv THEN xv[i] ELSE junk

\* ------------------------------------------------------------ constructor
\* exp(-sqrt(dd/sd2)) and exp(-0.5*dd/sd2) as doubles, for the positions drawn
\* here and sd2 = 1: exactly 1 at dd = 0, and 0.0 (underflow, the exponent is
\* below -745) for two different particles
ExpNegSqrt(dd, sd2) == IF dd = 0 THEN 1 ELSE 0
ExpNegHalf(dd, sd2) == IF dd = 0 THEN 1 ELSE 0

\* the matrix A of lines 26-38
Covariance(n, posn, sv, sd, ek) ==
    LET sv2 == sv * sv
        sd2 == sd * sd
    IN [ij \in (0..(n - 1)) \X (0..(n - 1)) |->
          LET dd == norm2(VSub(posn[ij[1]], posn[ij[2]]))
          IN sv2 * (IF ek THEN ExpNegSqrt(dd, sd2) ELSE ExpNegHalf(dd, sd2))]

\* orthonormal matrices with integer entries
Identity(n) == [p \in 0..(n - 1) |-> [d \in 0..(n - 1) |-> IF p = d THEN 1 ELSE 0]]
Reversal(n) ==
    [p \in 0..(n - 1) |-> [d \in 0..(n - 1) |-> IF p + d = n - 1 THEN 0 - 1 ELSE 0]]
\* SvdHelper::decompose of A = k*I: the singular values are the diagonal, in
\* descending order since they are equal, and any orthonormal matrix holds
\* singular vectors
decompose(A, n) ==
    { [S |-> [d \in 0..(n - 1) |-> A[<<d, d>>]], Vt |-> V] :
        V \in {Identity(n), Reversal(n)} }

\* lines 45-64: dc, basis and eigenVals from the decomposition
DimCount(maxDims, n) == IF maxDims > n THEN n ELSE maxDims
BasisOf(svd, n, ndc) ==
    [p \in 0..(n - 1) |-> [d \in 0..(ndc - 1) |-> Sqrt(svd.S[d]) * svd.Vt[p][d]]]
EigenValsOf(svd, ndc) == [d \in 0..(ndc - 1) |-> svd.S[d]]

\* ---------------------------------------------------------- paramsToPos
\* mutant: the stride of a transition taken as pc instead of dc
SlotStridePc(f, d) == 2 * (pc + pc * f + d)
\* the index of the x entry of the coefficient of transition f and mode d
Slot(f, d) == 2 * (pc + dc * f + d)
ExpectedLen == 2 * pc + 2 * dc * (fc - 1)

\* lines 212-221: the velocity of particle p at transition f
Velocity(xv, p, f, junk) ==
    V2(SumTo([d \in 0..(dc - 1) |-> XAt(xv, Slot(f, d), junk) * basis[p][d]], dc),
       SumTo([d \in 0..(dc - 1) |-> XAt(xv, Slot(f, d) + 1, junk) * basis[p][d]], dc))

RECURSIVE PosAt(_, _, _, _)
\* the value of pp when pos[p][f] is written (lines 204-224)
PosAt(xv, p, f, junk) ==
    IF f = 0 THEN V2(XAt(xv, 2 * p, junk), XAt(xv, 2 * p + 1, junk))
    ELSE VAdd(PosAt(xv, p, f - 1, junk), Velocity(xv, p, f - 1, junk))

paramsToPos(xv, junk) ==
    [p \in 0..(pc - 1) |-> [f \in 0..(fc - 1) |-> PosAt(xv, p, f, junk)]]

\* the indices of x that paramsToPos reads
ParamsToPosReads ==
    {2 * p + c : p \in 0..(pc - 1), c \in {0, 1}}
    \cup {Slot(f, d) + c : f \in 0..(fc - 2), d \in 0..(dc - 1), c \in {0, 1}}

\* ---------------------------------------------------------- posToParams
\* lines 242-250: the projection of the velocities of transition f on mode d
Projection(posg, f, d) ==
    V2(SumTo([p \in 0..(pc - 1) |->
                VSub(posg[p][f + 1], posg[p][f])[1] * basis[p][d]], pc),
       SumTo([p \in 0..(pc - 1) |->
                VSub(posg[p][f + 1], posg[p][f])[2] * basis[p][d]], pc))

\* mutant: the projection is not divided by the eigenvalue
CoefficientNotNormalised(posg, f, d) ==
    V2(Quot(Projection(posg, f, d)[1], 1), Quot(Projection(posg, f, d)[2], 1))
\* lines 252-253: the two slots written for (f, d)
CoefficientOf(posg, f, d) ==
    V2(Quot(Projection(posg, f, d)[1], eigenVals[d]),
       Quot(Projection(posg, f, d)[2], eigenVals[d]))

\* pos[p][f]; a read outside the row returns whatever lies there
PAt(posg, p, f, junk) ==
    IF f \in DOMAIN posg[p] THEN posg[p][f] ELSE V2(junk, junk)

\* the vector posToParams leaves in an x of the expected length
posToParams(posg, junk) ==
    [i \in 0..(ExpectedLen - 1) |->
        IF i < 2 * pc THEN RInt(PAt(posg, i \div 2, 0, junk)[(i % 2) + 1])
        ELSE LET k == (i - 2 * pc) \div 2
             IN CoefficientOf(posg, k \div dc, k % dc)[(i % 2) + 1]]

\* -------------------------------------------------------------------- f
\* lines 77-84: the local e of iteration p of the parallel loop
PartialE(posg, p) ==
    0 - SumTo([f \in 0..(fc - 1) |->
                 cubicXY(correlation[p][f],
                         posg[p][f][1] + perFrameOffsets[f][1],
                         posg[p][f][2] + perFrameOffsets[f][2])], fc)

\* e_tot after the parallel loop has joined
CorrelationTerm(posg) == SumTo([p \in 0..(pc - 1) |-> PartialE(posg, p)], pc)

\* lines 90-97: the amount iteration it = <<f, d>> adds to e_tot
RegBody(xv, junk, it) ==
    LET cx == XAt(xv, Slot(it[1], it[2]), junk)
        cy == XAt(xv, Slot(it[1], it[2]) + 1, junk)
    IN cx * cx + cy * cy
RegularizationTerm(xv, junk) ==
    LET its == Pairs(fc - 1, dc)
    IN SumRange([k \in 1..Len(its) |-> RegBody(xv, junk, its[k])], 1, Len(its))

\* mutant: the branch is also taken at sig_acc_px = 0
AccEnabledAtZero == sig_acc_px >= 0
\* line 99 and line 173
AccEnabled == sig_acc_px > 0

\* lines 101-113: the amount iteration it = <<f, d>> adds to e_tot
AccBody(xv, junk, it) ==
    LET cx0 == XAt(xv, Slot(it[1], it[2]), junk)
        cy0 == XAt(xv, Slot(it[1], it[2]) + 1, junk)
        cx1 == XAt(xv, Slot(it[1] + 1, it[2]), junk)
        cy1 == XAt(xv, Slot(it[1] + 1, it[2]) + 1, junk)
        dcx == cx1 - cx0
        dcy == cy1 - cy0
    IN Quot(eigenVals[it[2]] * (dcx * dcx + dcy * dcy), sig_acc_px * sig_acc_px)
\* e_tot after the acceleration loop, entered with e_tot = e
AccelerationLoop(xv, junk, e) ==
    LET its == Pairs(fc - 2, dc)
    IN ApplyWrites([i \in {0} |-> e],
           [k \in 1..Len(its) |-> 0],
           [k \in 1..Len(its) |-> AccBody(xv, junk, its[k])],
           Len(its))[0]

\* lines 90-116, from the value of e_tot after the parallel loop
FinishF(xv, junk, etot) ==
    LET e1 == etot + RegularizationTerm(xv, junk)
    IN IF AccEnabled THEN AccelerationLoop(xv, junk, RInt(e1)) ELSE RInt(e1)

\* the value f returns
fValue(xv, junk) == FinishF(xv, junk, CorrelationTerm(paramsToPos(xv, junk)))

\* the indices of x that lines 90-114 read
FReads ==
    {Slot(f, d) + c : f \in 0..(fc - 2), d \in 0..(dc - 1), c \in {0, 1}}

\* ----------------------------------------------------------------- grad
\* lines 127-137
CorrelationGradients(posg) ==
    [p \in 0..(pc - 1) |-> [f \in 0..(fc - 1) |->
        cubicXYgrad(correlation[p][f],
                    posg[p][f][1] + perFrameOffsets[f][1],
                    posg[p][f][2] + perFrameOffsets[f][2])]]

\* lines 139-142
ZeroGrad(n) == [i \in 0..(n - 1) |-> RInt(0)]

\* lines 144-149: statement j of iteration it = <<p, f>>
Frame0Index(it, j) == 2 * it[1] + j
Frame0Amount(ccg, it, j) == RInt(ccg[it[1]][it[2]][j + 1])
Frame0Loop(ccg, g) ==
    LET its == Pairs(pc, fc)
        n == 2 * Len(its)
    IN ApplyWrites(g,
           [k \in 1..n |-> Frame0Index(StmtIteration(its, 2, k), StmtNumber(2, k))],
           [k \in 1..n |->
               Frame0Amount(ccg, StmtIteration(its, 2, k), StmtNumber(2, k))],
           n)

RECURSIVE RunningG(_, _, _, _)
\* lines 154-159: g of the pass of (d, p) when it writes the slot of frame f
RunningG(ccg, p, d, f) ==
    IF f > fc - 2 THEN V2(0, 0)
    ELSE VAdd(RunningG(ccg, p, d, f + 1), VScale(basis[p][d], ccg[p][f]))

\* lines 151-164: statement j of iteration it = <<d, p, k>>, where the inner
\* loop runs f = fc-2 down to 0, so that its k-th round has f = fc-2-k
ReverseIndex(it, j) == Slot(fc - 2 - it[3], it[1]) + j
ReverseAmount(ccg, it, j) ==
    RInt(0 - RunningG(ccg, it[2], it[1], fc - 2 - it[3])[j + 1])
ReverseLoop(ccg, g) ==
    LET its == Triples(dc, pc, fc - 1)
        n == 2 * Len(its)
    IN ApplyWrites(g,
           [k \in 1..n |-> ReverseIndex(StmtIteration(its, 2, k), StmtNumber(2, k))],
           [k \in 1..n |->
               ReverseAmount(ccg, StmtIteration(its, 2, k), StmtNumber(2, k))],
           n)

\* lines 166-171: the iterations <<f, d>> of the regularization loop
RegGradIterations == Pairs(fc - 1, pc)
RegGradIndex(it, j) == Slot(it[1], it[2]) + j
RegGradAmount(xv, junk, it, j) == RInt(2 * XAt(xv, RegGradIndex(it, j), junk))
RegGradLoop(xv, junk, g) ==
    LET its == RegGradIterations
        n == 2 * Len(its)
    IN ApplyWrites(g,
           [k \in 1..n |-> RegGradIndex(StmtIteration(its, 2, k), StmtNumber(2, k))],
           [k \in 1..n |->
               RegGradAmount(xv, junk, StmtIteration(its, 2, k), StmtNumber(2, k))],
           n)

\* the indices of gradDest and x that lines 166-171 use, one per statement
RegGradIndices ==
    [k \in 1..(2 * Len(RegGradIterations)) |->
        RegGradIndex(StmtIteration(RegGradIterations, 2, k), StmtNumber(2, k))]

\* lines 177-194: statement j of iteration it = <<f, d>>
AccGradIndex(it, j) == Slot(it[1] + (j \div 2), it[2]) + (j % 2)
AccGradAmount(xv, junk, it, j) ==
    LET sa2 == sig_acc_px * sig_acc_px
        f == it[1]
        d == it[2]
        dcx == XAt(xv, Slot(f + 1, d), junk) - XAt(xv, Slot(f, d), junk)
        dcy == XAt(xv, Slot(f + 1, d) + 1, junk) - XAt(xv, Slot(f, d) + 1, junk)
    IN IF j = 0 THEN Quot(0 - 2 * eigenVals[d] * dcx, sa2)
       ELSE IF j = 1 THEN Quot(0 - 2 * eigenVals[d] * dcy, sa2)
       ELSE IF j = 2 THEN Quot(2 * eigenVals[d] * dcx, sa2)
       ELSE Quot(2 * eigenVals[d] * dcy, sa2)
AccGradLoop(xv, junk, g) ==
    LET its == Pairs(fc - 2, dc)
        n == 4 * Len(its)
    IN ApplyWrites(g,
           [k \in 1..n |-> AccGradIndex(StmtIteration(its, 4, k), StmtNumber(4, k))],
           [k \in 1..n |->
               AccGradAmount(xv, junk, StmtIteration(its, 4, k), StmtNumber(4, k))],
           n)

\* gradDest after lines 139-171
GradBeforeAcc(xv, n, junk) ==
    LET ccg == CorrelationGradients(paramsToPos(xv, junk))
    IN RegGradLoop(xv, junk, ReverseLoop(ccg, Frame0Loop(ccg, ZeroGrad(n))))

\* the vector grad leaves in a gradDest of n entries
gradValue(xv, n, junk) ==
    IF AccEnabled THEN AccGradLoop(xv, junk, GradBeforeAcc(xv, n, junk))
    ELSE GradBeforeAcc(xv, n, junk)

\* the indices grad uses on x and on gradDest
GradIndices ==
    ParamsToPosReads \cup {RegGradIndices[k] : k \in DOMAIN RegGradIndices}
    \cup (IF AccEnabled
          THEN {Slot(f + b, d) + c :
                  f \in 0..(fc - 3), d \in 0..(dc - 1), b \in {0, 1}, c \in {0, 1}}
          ELSE {})

\* ----------------------------------------------------------- the object
\* the fields the constructor sets (lines 15-24, 45-64), for a correlation set
\* whose first element has nfc frames
Constructed(corr, hp, maxDims, nthreads, posn, offs, nfc, svd) ==
    [pc |-> Size(corr), fc |-> nfc,
     dc |-> DimCount(maxDims, Size(corr)),
     sig_vel_px |-> hp[1], sig_div_px |-> hp[2], sig_acc_px |-> hp[3],
     expKer |-> hp[4], threads |-> nthreads,
     correlation |-> corr, positions |-> posn, perFrameOffsets |-> offs,
     basis |-> BasisOf(svd, Size(corr), DimCount(maxDims, Size(corr))),
     eigenVals |-> EigenValsOf(svd, DimCount(maxDims, Size(corr)))]

\* the objects the constructor can return for np particles and nf frames
Objects(np, nf, kind, hp, maxDims, nthreads, nfc) ==
    { Constructed(CorrelationInput(np, nf, kind), hp, maxDims, nthreads,
                  PositionsInput(np), OffsetsInput(nf), nfc, svd) :
        svd \in decompose(Covariance(np, PositionsInput(np), hp[1], hp[2], hp[4]),
                          np) }

ObjectIs(o) ==
    /\ pc = o.pc /\ fc = o.fc /\ dc = o.dc
    /\ sig_vel_px = o.sig_vel_px /\ sig_div_px = o.sig_div_px
    /\ sig_acc_px = o.sig_acc_px /\ expKer = o.expKer /\ threads = o.threads
    /\ correlation = o.correlation /\ positions = o.positions
    /\ perFrameOffsets = o.perFrameOffsets
    /\ basis = o.basis /\ eigenVals = o.eigenVals

ObjectBecomes(o) ==
    /\ pc' = o.pc /\ fc' = o.fc /\ dc' = o.dc
    /\ sig_vel_px' = o.sig_vel_px /\ sig_div_px' = o.sig_div_px
    /\ sig_acc_px' = o.sig_acc_px /\ expKer' = o.expKer /\ threads' = o.threads
    /\ correlation' = o.correlation /\ positions' = o.positions
    /\ perFrameOffsets' = o.perFrameOffsets
    /\ basis' = o.basis /\ eigenVals' = o.eigenVals

NoObject ==
    [pc |-> 0, fc |-> 0, dc |-> 0, sig_vel_px |-> 0, sig_div_px |-> 0,
     sig_acc_px |-> 0, expKer |-> FALSE, threads |-> 0, correlation |-> Empty,
     positions |-> Empty, perFrameOffsets |-> Empty, basis |-> Empty,
     eigenVals |-> Empty]

\* no call made yet, or the results of a call that are not written by it
Call(name, xv, posg, xo, e, g, o, acc) ==
    /\ op' = name /\ x' = xv /\ pos' = posg /\ xOut' = xo
    /\ e_ret' = e /\ gradDest' = g /\ oob' = o /\ accTaken' = acc

NoWorkers ==
    [e_tot |-> 0, todo |-> {}, wpc |-> Empty, wp |-> Empty, we |-> Empty,
     wr |-> Empty, added |-> Empty]
WorkersAre(w) ==
    /\ e_tot = w.e_tot /\ todo = w.todo /\ wpc = w.wpc /\ wp = w.wp
    /\ we = w.we /\ wr = w.wr /\ added = w.added

Init ==
    /\ state = "new"
    /\ ObjectIs(NoObject)
    /\ op = "none" /\ x = Empty /\ pos = Empty /\ xOut = Empty
    /\ e_ret = RInt(0) /\ gradDest = Empty /\ oob = FALSE /\ accTaken = FALSE
    /\ WorkersAre(NoWorkers)

\* ------------------------------------------------------------- the calls
\* GpMotionFit::GpMotionFit, lines 7-65.  Nothing is checked: not the sizes of
\* the inputs, not the signs of the hyperparameters.  With an empty
\* correlation set, line 17 reads correlation[0] of an empty vector: the
\* process dies or fc is whatever lies there.
GpMotionFit ==
    /\ state = "new"
    /\ \E np \in 0..MaxPc, nf \in 0..MaxFc, kind \in {1, 2}, hp \in HyperParams,
          maxDims \in 1..MaxDims, nthreads \in {1} :  \* the calls below run f's
                                                    \* loop as one step
         /\ np = 0 => nf = 0
         /\ IF np = 0
            THEN \/ /\ state' = "dead"
                    /\ UNCHANGED objVars
                    /\ Call("ctor", Empty, Empty, Empty, RInt(0), Empty, TRUE, FALSE)
                 \/ \E garbage \in 0..MaxFc :
                      \E o \in Objects(np, nf, kind, hp, maxDims, nthreads, garbage) :
                         /\ state' = "ready"
                         /\ ObjectBecomes(o)
                         /\ Call("ctor", Empty, Empty, Empty, RInt(0), Empty,
                                 TRUE, FALSE)
            ELSE \E o \in Objects(np, nf, kind, hp, maxDims, nthreads, nf) :
                    /\ state' = "ready"
                    /\ ObjectBecomes(o)
                    /\ Call("ctor", Empty, Empty, Empty, RInt(0), Empty, FALSE, FALSE)
    /\ UNCHANGED parVars

\* the parameter vectors the driver passes: of the expected length, one
\* shorter and one longer
XInputs ==
    { XVector(n, seed) :
        n \in {m \in (ExpectedLen - 1)..(ExpectedLen + 1) : m >= 0},
        seed \in 1..MaxSeed }

\* what reads outside a vector may return in a call that uses `indices` of xv
Junk(xv, indices) == IF indices \subseteq DOMAIN xv THEN {0} ELSE JunkVals

\* a call that indexes xv outside its bounds may also kill the process
Dies(name, xv) ==
    /\ state' = "dead"
    /\ Call(name, xv, Empty, Empty, RInt(0), Empty, TRUE, FALSE)

\* GpMotionFit::paramsToPos, lines 198-227
ParamsToPos ==
    /\ state = "ready"
    /\ \E xv \in XInputs :
         \/ \E junk \in Junk(xv, ParamsToPosReads) :
              /\ state' = "returned"
              /\ Call("paramsToPos", xv, paramsToPos(xv, junk), Empty, RInt(0),
                      Empty, ~(ParamsToPosReads \subseteq DOMAIN xv), FALSE)
         \/ /\ ~(ParamsToPosReads \subseteq DOMAIN xv)
            /\ Dies("paramsToPos", xv)
    /\ UNCHANGED <<objVars, parVars>>

\* GpMotionFit::f, lines 67-117, the parallel loop taken as its joined result
F ==
    /\ state = "ready"
    /\ \E xv \in XInputs :
         \/ \E junk \in Junk(xv, ParamsToPosReads \cup FReads) :
              /\ state' = "returned"
              /\ Call("f", xv, Empty, Empty, fValue(xv, junk), Empty,
                      ~((ParamsToPosReads \cup FReads) \subseteq DOMAIN xv),
                      AccEnabled)
         \/ /\ ~((ParamsToPosReads \cup FReads) \subseteq DOMAIN xv)
            /\ Dies("f", xv)
    /\ UNCHANGED <<objVars, parVars>>

\* GpMotionFit::grad, lines 119-196; the driver passes a gradDest as long as x
Grad ==
    /\ state = "ready"
    /\ \E xv \in XInputs :
         \/ \E junk \in Junk(xv, GradIndices) :
              /\ state' = "returned"
              /\ Call("grad", xv, Empty, Empty, RInt(0),
                      gradValue(xv, Size(xv), junk),
                      ~(GradIndices \subseteq DOMAIN xv), AccEnabled)
         \/ /\ ~(GradIndices \subseteq DOMAIN xv)
            /\ Dies("grad", xv)
    /\ UNCHANGED <<objVars, parVars>>

\* the trajectories the driver collapses: expansions of parameter vectors
\* of the expected length, and a trajectory known from elsewhere
PosInputs ==
    { paramsToPos(XVector(ExpectedLen, seed), 0) : seed \in 1..MaxSeed }
    \cup { [p \in 0..(pc - 1) |-> [f \in 0..(fc - 1) |-> V2(p + f * f, p - f)]] }

\* GpMotionFit::posToParams, lines 229-255, into an x of the expected length.
\* With fc = 0, line 235 reads pos[p][0] of an empty row and writes x[2*p].
PosToParams ==
    /\ state = "ready"
    /\ \E posg \in PosInputs :
         \/ \E junk \in (IF fc = 0 /\ pc > 0 THEN JunkVals ELSE {0}) :
              /\ state' = "returned"
              /\ Call("posToParams", Empty, posg, posToParams(posg, junk), RInt(0),
                      Empty, fc = 0 /\ pc > 0, FALSE)
         \/ /\ fc = 0 /\ pc > 0
            /\ state' = "dead"
            /\ Call("posToParams", Empty, posg, Empty, RInt(0), Empty, TRUE, FALSE)
    /\ UNCHANGED <<objVars, parVars>>

\* the driver has used the results and is about to call again; the member
\* functions are const, the object is as the constructor left it
NextCall ==
    /\ state = "returned"
    /\ state' = "ready"
    /\ Call("none", Empty, Empty, Empty, RInt(0), Empty, FALSE, FALSE)
    /\ UNCHANGED <<objVars, parVars>>

Next == GpMotionFit \/ ParamsToPos \/ F \/ Grad \/ PosToParams \/ NextCall

Spec == Init /\ [][Next]_vars

\* --------------------------------------------- the parallel loop of f
\* Lines 74-88 step by step: `#pragma omp parallel for num_threads(threads)`
\* hands every iteration p to one worker of the team and each worker runs the
\* body on its private e.  `e_tot += e` is a load of e_tot followed by a store
\* of the sum; `#pragma omp atomic` lets no other update of e_tot come between
\* the two.
Workers == 1..threads

\* mutant: the update without the atomic pragma
NotAtomic(t) == TRUE
\* line 86: worker t may load e_tot only while no other worker is between
\* its load and its store
AtomicExcludes(t) == \A u \in Workers \ {t} : wpc[u] # "store"

\* line 87: the value stored into e_tot
AtomicUpdate(loaded, e) == loaded + e

\* the iterations left after p has been handed out
HandOut(iterations, p) == iterations \ {p}

\* the constructed objects the parallel loop is explored on
InitPar ==
    /\ state = "ready"
    /\ \E np \in 1..MaxPc, nf \in 1..MaxFc, kind \in {1, 2},
          nthreads \in 1..MaxThreads :
         \E o \in Objects(np, nf, kind, <<2, 1, 1, FALSE>>, MaxDims, nthreads, nf) :
            ObjectIs(o)
    /\ op = "ctor" /\ x = Empty /\ pos = Empty /\ xOut = Empty
    /\ e_ret = RInt(0) /\ gradDest = Empty /\ oob = FALSE /\ accTaken = FALSE
    /\ WorkersAre(NoWorkers)

\* lines 67-72: f is called, expands x and enters the parallel region
FBegin ==
    /\ state = "ready"
    /\ \E seed \in 1..MaxSeed :
         Call("f", XVector(ExpectedLen, seed),
              paramsToPos(XVector(ExpectedLen, seed), 0), Empty, RInt(0), Empty,
              FALSE, FALSE)
    /\ state' = "running"
    /\ e_tot' = 0
    /\ todo' = 0..(pc - 1)
    /\ wpc' = [t \in Workers |-> "idle"]
    /\ wp' = [t \in Workers |-> 0 - 1]
    /\ we' = [t \in Workers |-> 0]
    /\ wr' = [t \in Workers |-> 0]
    /\ added' = [p \in 0..(pc - 1) |-> 0]
    /\ UNCHANGED objVars

\* line 75: worker t is handed an iteration
Take(t) ==
    /\ state = "running" /\ wpc[t] = "idle"
    /\ \E p \in todo :
         /\ todo' = HandOut(todo, p)
         /\ wp' = [wp EXCEPT ![t] = p]
    /\ wpc' = [wpc EXCEPT ![t] = "body"]
    /\ UNCHANGED <<state, objVars, callVars, e_tot, we, wr, added>>

\* lines 77-84: the body up to the atomic statement, on private data
Body(t) ==
    /\ state = "running" /\ wpc[t] = "body"
    /\ we' = [we EXCEPT ![t] = PartialE(pos, wp[t])]
    /\ wpc' = [wpc EXCEPT ![t] = "atomic"]
    /\ UNCHANGED <<state, objVars, callVars, e_tot, todo, wp, wr, added>>

\* lines 86-87: the load of the atomic update
AtomicLoad(t) ==
    /\ state = "running" /\ wpc[t] = "atomic"
    /\ AtomicExcludes(t)
    /\ wr' = [wr EXCEPT ![t] = e_tot]
    /\ wpc' = [wpc EXCEPT ![t] = "store"]
    /\ UNCHANGED <<state, objVars, callVars, e_tot, todo, wp, we, added>>

\* lines 86-87: the store of the atomic update
AtomicStore(t) ==
    /\ state = "running" /\ wpc[t] = "store"
    /\ e_tot' = AtomicUpdate(wr[t], we[t])
    /\ added' = [added EXCEPT ![wp[t]] = @ + 1]
    /\ wpc' = [wpc EXCEPT ![t] = "idle"]
    /\ UNCHANGED <<state, objVars, callVars, todo, wp, we, wr>>

\* line 88: no iteration is left, worker t waits at the barrier
Leave(t) ==
    /\ state = "running" /\ wpc[t] = "idle" /\ todo = {}
    /\ wpc' = [wpc EXCEPT ![t] = "done"]
    /\ UNCHANGED <<state, objVars, callVars, e_tot, todo, wp, we, wr, added>>

\* lines 90-116 after the join
FReturn ==
    /\ state = "running"
    /\ \A t \in Workers : wpc[t] = "done"
    /\ state' = "returned"
    /\ e_ret' = FinishF(x, 0, e_tot)
    /\ accTaken' = AccEnabled
    /\ UNCHANGED <<objVars, op, x, pos, xOut, gradDest, oob, parVars>>

NextPar ==
    \/ FBegin
    \/ \E t \in Workers : Take(t)
    \/ \E t \in Workers : Body(t)
    \/ \E t \in Workers : AtomicLoad(t)
    \/ \E t \in Workers : AtomicStore(t)
    \/ \E t \in Workers : Leave(t)
    \/ FReturn
    \/ NextCall

SpecPar == InitPar /\ [][NextPar]_vars

\* ============================================================ the claims
\* an object of the data model: at least one particle, one frame, one mode
ValidObject ==
    state \in {"ready", "returned"} /\ pc >= 1 /\ fc >= 1 /\ dc >= 1
\* `name` has returned from a call on a parameter vector of the expected length
Called(name) ==
    ValidObject /\ state = "returned" /\ op = name /\ Size(x) = ExpectedLen

\* x with slot i moved by h
Shift(xv, i, h) == [xv EXCEPT ![i] = @ + h]
\* f is a polynomial of degree 2 in x, so twice its partial derivative in
\* slot i is the central difference f(x + e_i) - f(x - e_i)
TwiceDerivative(xv, i) ==
    RAdd(fValue(Shift(xv, i, 1), 0), RNeg(fValue(Shift(xv, i, 0 - 1), 0)))
Twice(r) == <<2 * r[1], r[2]>>

\* C1: after grad(x, gradDest) on an x of the expected length, every slot of
\* gradDest is the partial derivative of f in that slot, with and without the
\* acceleration term.
C1_GradientIsExact ==
    Called("grad") =>
        /\ DOMAIN gradDest = DOMAIN x
        /\ \A i \in DOMAIN x : REq(Twice(gradDest[i]), TwiceDerivative(x, i))

\* the basis columns are mutually orthogonal, with squared norm eigenVals[d]
OrthogonalBasis ==
    \A d1 \in 0..(dc - 1), d2 \in 0..(dc - 1) :
        SumTo([p \in 0..(pc - 1) |-> basis[p][d1] * basis[p][d2]], pc)
            = (IF d1 = d2 THEN eigenVals[d1] ELSE 0)
PositiveEigenVals == \A d \in 0..(dc - 1) : eigenVals[d] > 0

\* C2: with an orthogonal basis and positive retained eigenvalues,
\* posToParams applied to the expansion of an x of the expected length
\* writes x back, in every slot.
C2_RoundTrip ==
    (ValidObject /\ state = "returned" /\ op = "posToParams" /\ OrthogonalBasis /\ PositiveEigenVals) =>
        \A seed \in 1..MaxSeed :
            pos = paramsToPos(XVector(ExpectedLen, seed), 0) =>
                /\ DOMAIN xOut = 0..(ExpectedLen - 1)
                /\ \A i \in DOMAIN xOut :
                     REq(xOut[i], RInt(XVector(ExpectedLen, seed)[i]))

C2_Witness ==
    /\ ValidObject /\ state = "returned" /\ op = "posToParams" /\ OrthogonalBasis /\ PositiveEigenVals
    /\ pc >= 2 /\ dc < pc /\ fc >= 3 /\ eigenVals[0] > 1
    /\ \E seed \in 1..MaxSeed :
         /\ pos = paramsToPos(XVector(ExpectedLen, seed), 0)
         /\ \E i \in (2 * pc)..(ExpectedLen - 1) : XVector(ExpectedLen, seed)[i] # 0
         /\ \A i \in DOMAIN xOut : REq(xOut[i], RInt(XVector(ExpectedLen, seed)[i]))

\* C3: in the parallel loop of f no particle's partial sum is added twice,
\* and when f has returned every particle's partial sum has been added
\* exactly once and e_tot is their sum, the value of a sequential run.
C3_ReductionIsRaceFree ==
    /\ \A p \in DOMAIN added : added[p] <= 1
    /\ (state = "returned" /\ op = "f") =>
          /\ \A p \in 0..(pc - 1) : added[p] = 1
          /\ e_tot = SumTo([p \in 0..(pc - 1) |-> PartialE(pos, p)], pc)
          /\ e_ret = fValue(x, 0)

C3_Witness ==
    /\ state = "returned" /\ op = "f" /\ threads >= 2 /\ pc >= 2
    /\ \E t1 \in Workers, t2 \in Workers :
         t1 # t2 /\ wp[t1] >= 0 /\ wp[t2] >= 0 /\ we[t1] # 0 /\ we[t2] # 0
    /\ e_tot = SumTo([p \in 0..(pc - 1) |-> PartialE(pos, p)], pc)

\* C4: a call of paramsToPos, f or grad with a parameter vector of the wrong
\* length does not return normally, and indexes nothing outside the vector.
C4_WrongLengthIsRejected ==
    (pc >= 1 /\ fc >= 1 /\ op \in {"paramsToPos", "f", "grad"}
       /\ Size(x) # ExpectedLen) =>
        state # "returned" /\ ~oob

\* C5: no object is constructed from an empty particle set, an empty frame
\* set or a non-positive sig_vel_px or sig_div_px.
C5_ConstructionRejectsBadInputs ==
    state \in {"ready", "returned"} =>
        /\ Size(correlation) >= 1 /\ fc >= 1
        /\ sig_vel_px > 0 /\ sig_div_px > 0

\* C6: with sig_acc_px = 0, f returns the correlation term plus the
\* regularization term, grad writes the gradient without the acceleration
\* contribution, and neither enters the acceleration branch or divides by
\* sig_acc_px^2.
C6_AccDisabledAtZero ==
    (ValidObject /\ state = "returned" /\ sig_acc_px = 0
       /\ Size(x) = ExpectedLen) =>
        /\ op = "f" =>
             /\ ~accTaken
             /\ e_ret = RInt(CorrelationTerm(paramsToPos(x, 0))
                             + RegularizationTerm(x, 0))
        /\ op = "grad" =>
             /\ ~accTaken
             /\ gradDest = GradBeforeAcc(x, Size(x), 0)
             /\ \A i \in DOMAIN gradDest : gradDest[i][2] = 1

C6_Witness ==
    /\ ValidObject /\ state = "returned" /\ sig_acc_px = 0
    /\ Size(x) = ExpectedLen /\ fc >= 3 /\ op \in {"f", "grad"} /\ ~accTaken
    /\ \E d \in 0..(dc - 1) :
         x[2 * (pc + d)] # x[2 * (pc + dc + d)] /\ eigenVals[d] > 0

\* C7: paramsToPos expands an x of the expected length as a cumulative sum,
\* reads only indices inside x, writes every pos[p][f], and the slots of
\* different (f, d) are disjoint and lie behind the frame-0 slots.
C7_ExpansionIsCumulativeSum ==
    Called("paramsToPos") =>
        /\ ~oob
        /\ ParamsToPosReads \subseteq 0..(2 * pc + 2 * dc * (fc - 1) - 1)
        /\ DOMAIN pos = 0..(pc - 1)
        /\ \A p \in 0..(pc - 1) :
             /\ DOMAIN pos[p] = 0..(fc - 1)
             /\ pos[p][0] = V2(x[2 * p], x[2 * p + 1])
             /\ \A f \in 0..(fc - 2) :
                  pos[p][f + 1] =
                    VAdd(pos[p][f],
                         V2(SumTo([d \in 0..(dc - 1) |->
                                     x[2 * (pc + dc * f + d)] * basis[p][d]], dc),
                            SumTo([d \in 0..(dc - 1) |->
                                     x[2 * (pc + dc * f + d) + 1] * basis[p][d]], dc)))
        /\ \A f1 \in 0..(fc - 2), f2 \in 0..(fc - 2),
              d1 \in 0..(dc - 1), d2 \in 0..(dc - 1) :
             /\ Slot(f1, d1) >= 2 * pc
             /\ (<<f1, d1>> # <<f2, d2>>) =>
                  {Slot(f1, d1), Slot(f1, d1) + 1}
                    \cap {Slot(f2, d2), Slot(f2, d2) + 1} = {}

C7_Witness ==
    /\ Called("paramsToPos") /\ ~oob
    /\ pc >= 2 /\ dc >= 2 /\ fc >= 3
    /\ \E p \in 0..(pc - 1) : pos[p][2] # pos[p][1] /\ pos[p][1] # pos[p][0]

\* C8: in grad, the running sum of the reverse pass of (d, p), when it writes
\* the slot of transition f, is the sum of basis(p,d) * ccg_pf[p][g] over the
\* later frames g = f+1 .. fc-1.
C8_ReversePassSumsLaterFrames ==
    Called("grad") =>
        LET ccg == CorrelationGradients(paramsToPos(x, 0))
        IN \A d \in 0..(dc - 1), p \in 0..(pc - 1), f \in 0..(fc - 2) :
             RunningG(ccg, p, d, f) =
               V2(SumTo([k \in 0..(fc - 2 - f) |->
                           basis[p][d] * ccg[p][f + 1 + k][1]], fc - 1 - f),
                  SumTo([k \in 0..(fc - 2 - f) |->
                           basis[p][d] * ccg[p][f + 1 + k][2]], fc - 1 - f))

\* how many accesses of the regularization loop of grad use index i
RegTouches(i) ==
    Cardinality({k \in DOMAIN RegGradIndices : RegGradIndices[k] = i})

\* C9: in grad, the regularization loop uses every coefficient slot exactly
\* once, no frame-0 slot, and no index at or past the vector length.
C9_RegularizationOncePerSlot ==
    Called("grad") =>
        /\ \A k \in DOMAIN RegGradIndices :
             RegGradIndices[k] < 2 * pc + 2 * dc * (fc - 1)
        /\ \A i \in 0..(ExpectedLen - 1) :
             RegTouches(i) = (IF i < 2 * pc THEN 0 ELSE 1)

\* C10: after grad, the frame-0 slots of every particle hold the partial
\* derivative of f in that slot.
C10_Frame0SlotsAreDerivative ==
    Called("grad") =>
        \A p \in 0..(pc - 1), c \in {0, 1} :
            REq(Twice(gradDest[2 * p + c]), TwiceDerivative(x, 2 * p + c))

====
